---- MODULE Spec2Model ----
(***************************************************************************)
(* A model of kcidb_io/schema/abstract.py: the lineage of schema versions  *)
(* (MetaVersion) and the classification, validation, upgrade and merge of  *)
(* datasets over it (Version).                                             *)
(*                                                                         *)
(* Conventions:                                                            *)
(*  - a version class is a number: 0 is the abstract class Version, the    *)
(*    classes 1..NumVersions derive from each other in a chain, and the    *)
(*    class Fork derives from class 1, beside the chain;                   *)
(*  - a dataset is a record [version, lists]: version is what              *)
(*    _get_version() returns, <<major, minor>> or <<>> for (None, None);   *)
(*    lists is the dictionary of the dataset's other keys, a function from *)
(*    the keys the dataset holds to sequences of objects (numbers);        *)
(*  - objects live in a heap (reference -> dataset), so that copying and   *)
(*    upgrading in place can be told apart;                                *)
(*  - LIGHT_ASSERTS is true (its default): the "assert LIGHT_ASSERTS or"   *)
(*    assertions evaluate nothing;                                         *)
(*  - the JSON schema validator is an oracle: accepts is the set of        *)
(*    versions whose schema accepts the dataset at hand.                   *)
(***************************************************************************)
EXTENDS Integers, Sequences, FiniteSets, TLC

VARIABLES
    op,             \* the operation called
    pc,             \* where the call is: "call", "loop", "combine", "done"
    cls,            \* the version class the operation is called on
    other,          \* the right operand of a comparison
    heap,           \* the objects: reference -> dataset
    given,          \* the caller's objects as they were when passed in
    accepts,        \* the validator: the versions whose schema accepts "data"
    optimized,      \* the interpreter strips assert statements (python -O)
    copy,           \* upgrade's copy, merge's copy_target
    copy_sources,   \* merge's copy_sources
    sources,        \* merge: what the sources iterable still holds
    consumed,       \* merge: the datasets the iterable has yielded, as passed
    target,         \* merge: the reference held by the local "target"
    source,         \* merge: the reference held by the local "source"
    target_version, \* merge: the local "target_version"
    result,         \* what the call returned or raised
    calls           \* the _inherit() invocations the call made, in order

vars == <<op, pc, cls, other, heap, given, accepts, optimized, copy,
          copy_sources, sources, consumed, target, source, target_version,
          result, calls>>

(***************************************************************************)
(* Bounds                                                                  *)
(***************************************************************************)
NumVersions == 3    \* the versions of the chain
MaxMinor == 1       \* the minor numbers a dataset declares: 0..MaxMinor
MaxSources == 2     \* the datasets a sources iterable holds

(***************************************************************************)
(* The version classes                                                     *)
(***************************************************************************)
None == -1

AbstractVersion == 0

Fork == NumVersions + 1

Versions == 1..Fork

Classes == 0..Fork

\* cls.__bases__[0], for a class other than the abstract Version
Base(v) == IF v = Fork THEN 1 ELSE v - 1

\* The metaclass requires a major above the base class's
Major(v) == IF v = Fork THEN 2 ELSE 2 * v - 1

Minor(v) == v % 2

Names == {"", "a", "b"}

\* The keys of the version's tree: every tree holds the root key ""
TreeKeys(v) == IF v % 2 = 0 THEN {"", "a", "b"} ELSE {"", "a"}

Tree(v) ==
    [k \in TreeKeys(v) |->
        IF k = "" THEN <<"a">>
        ELSE IF k = "a" /\ "b" \in TreeKeys(v) THEN <<"b">> ELSE <<>>]

\* issubclass(a, b): b is a, or a class a derives from
RECURSIVE IsSubclass(_, _)
IsSubclass(a, b) ==
    IF a = b THEN TRUE
    ELSE IF a = AbstractVersion THEN FALSE
    ELSE IsSubclass(Base(a), b)

Returned(v) == [status |-> "returned", exc |-> "", value |-> v]

\* An exception; a validation failure names the version whose schema failed
Raised(e, v) == [status |-> "raised", exc |-> e, value |-> v]

NoResult == [status |-> "none", exc |-> "", value |-> None]

\* __le__ answering with the operands of issubclass() the other way round
LeOperandsSwapped(a, b) ==
    IF ~IsSubclass(a, b) /\ ~IsSubclass(b, a)
    THEN Raised("NotImplementedError", None)
    ELSE Returned(IsSubclass(a, b))

Le(a, b) ==
    IF ~IsSubclass(a, b) /\ ~IsSubclass(b, a)
    THEN Raised("NotImplementedError", None)
    ELSE Returned(IsSubclass(b, a))

Ge(a, b) ==
    IF ~IsSubclass(a, b) /\ ~IsSubclass(b, a)
    THEN Raised("NotImplementedError", None)
    ELSE Returned(IsSubclass(a, b))

Lt(a, b) ==
    IF ~IsSubclass(a, b) /\ ~IsSubclass(b, a)
    THEN Raised("NotImplementedError", None)
    ELSE Returned(IsSubclass(b, a) /\ a # b)

Gt(a, b) ==
    IF ~IsSubclass(a, b) /\ ~IsSubclass(b, a)
    THEN Raised("NotImplementedError", None)
    ELSE Returned(IsSubclass(a, b) /\ a # b)

\* cls.lineage: this version first, the chain's first version last
RECURSIVE Lineage(_)
Lineage(v) ==
    IF v = AbstractVersion THEN <<>> ELSE <<v>> \o Lineage(Base(v))

(***************************************************************************)
(* Datasets                                                                *)
(***************************************************************************)
\* What a dataset may declare: nothing, or a major and a minor number
DeclaredVersions ==
    {<<>>} \cup {<<m, n>> : m \in 1..Major(NumVersions), n \in 0..MaxMinor}

\* The lists a dataset holds under the keys "keys": two objects under "a",
\* one under each other key, numbered from "first"
Lists(first, keys) ==
    [k \in keys |->
        IF k = "a" THEN <<first, first + 1>>
        ELSE IF k = "b" THEN <<first + 2>> ELSE <<first + 3>>]

Dataset(ver, first, keys) == [version |-> ver, lists |-> Lists(first, keys)]

\* data.get(k, [])
Get(d, k) == IF k \in DOMAIN d.lists THEN d.lists[k] ELSE <<>>

\* cls._get_version(data)
GetVersion(d) == d.version

(***************************************************************************)
(* Classification and validation                                           *)
(***************************************************************************)
\* is_compatible_exactly comparing the minor numbers the other way round
IsCompatibleExactlyNewerMinor(v, d) ==
    LET ver == GetVersion(d)
    IN  /\ ver # <<>>
        /\ ver[1] = Major(v)
        /\ ver[2] >= Minor(v)

\* (None, None) equals no major number, and the minor is then not compared
IsCompatibleExactly(v, d) ==
    LET ver == GetVersion(d)
    IN  /\ ver # <<>>
        /\ ver[1] = Major(v)
        /\ ver[2] <= Minor(v)

RECURSIVE FirstCompatible(_, _)
FirstCompatible(lineage, d) ==
    IF lineage = <<>> THEN None
    ELSE IF IsCompatibleExactly(Head(lineage), d) THEN Head(lineage)
    ELSE FirstCompatible(Tail(lineage), d)

GetExactlyCompatible(v, d) == FirstCompatible(Lineage(v), d)

IsCompatible(v, d) == GetExactlyCompatible(v, d) # None

\* jsonschema.validate() against the schema of v, then "return data"
ValidateExactly(v, ref, acc) ==
    IF v \in acc THEN Returned(ref) ELSE Raised("ValidationError", v)

IsValidExactly(v, ref, acc) == ValidateExactly(v, ref, acc).status = "returned"

\* (exactly_compatible or cls).validate_exactly(data)
Validate(v, ref, d, acc) ==
    LET exactly_compatible == GetExactlyCompatible(v, d)
    IN  ValidateExactly(IF exactly_compatible # None
                        THEN exactly_compatible ELSE v, ref, acc)

IsValid(v, ref, d, acc) == Validate(v, ref, d, acc).status = "returned"

RECURSIVE SumLen(_, _)
SumLen(d, keys) ==
    IF keys = {} THEN 0
    ELSE LET k == CHOOSE x \in keys : TRUE
         IN  Len(d.lists[k]) + SumLen(d, keys \ {k})

\* None has no attribute "tree"
Count(v, d) ==
    LET exactly_compatible == GetExactlyCompatible(v, d)
    IN  IF exactly_compatible = None THEN Raised("AttributeError", None)
        ELSE Returned(SumLen(d, {k \in TreeKeys(exactly_compatible) :
                                    k # "" /\ k \in DOMAIN d.lists}))

(***************************************************************************)
(* Comparing version classes                                               *)
(***************************************************************************)
NoCall ==
    /\ heap = <<>>
    /\ given = <<>>
    /\ accepts = {}
    /\ optimized = FALSE
    /\ copy = TRUE
    /\ copy_sources = TRUE
    /\ sources = <<>>
    /\ consumed = <<>>
    /\ target = "none"
    /\ source = "none"
    /\ target_version = None
    /\ result = NoResult
    /\ calls = <<>>

InitCompare ==
    /\ op = "compare"
    /\ pc = "call"
    /\ cls \in Classes
    /\ other \in Classes
    /\ NoCall

Compare(name, outcome) ==
    /\ op = "compare"
    /\ pc = "call"
    /\ op' = name
    /\ pc' = "done"
    /\ result' = outcome
    /\ UNCHANGED <<cls, other, heap, given, accepts, optimized, copy,
                   copy_sources, sources, consumed, target, source,
                   target_version, calls>>

CallLe == Compare("__le__", Le(cls, other))

CallGe == Compare("__ge__", Ge(cls, other))

CallLt == Compare("__lt__", Lt(cls, other))

CallGt == Compare("__gt__", Gt(cls, other))

NextCompare == CallLe \/ CallGe \/ CallLt \/ CallGt

SpecCompare == InitCompare /\ [][NextCompare]_vars

(***************************************************************************)
(* The read-only operations                                                *)
(***************************************************************************)
ReadOnlyOps ==
    {"get_exactly_compatible", "is_compatible", "validate", "is_valid",
     "count"}

InitClassify ==
    /\ op \in ReadOnlyOps
    /\ pc = "call"
    /\ cls \in Versions
    /\ other = None
    /\ \E ver \in DeclaredVersions, keys \in SUBSET Names :
          heap = ("data" :> Dataset(ver, 1, keys))
    /\ given = heap
    /\ accepts \in SUBSET Versions
    /\ optimized = FALSE
    /\ copy = TRUE
    /\ copy_sources = TRUE
    /\ sources = <<>>
    /\ consumed = <<>>
    /\ target = "none"
    /\ source = "none"
    /\ target_version = None
    /\ result = NoResult
    /\ calls = <<>>

\* None of these operations assigns to the dataset
ReadOnly(name, outcome) ==
    /\ op = name
    /\ pc = "call"
    /\ pc' = "done"
    /\ result' = outcome
    /\ UNCHANGED <<op, cls, other, heap, given, accepts, optimized, copy,
                   copy_sources, sources, consumed, target, source,
                   target_version, calls>>

CallGetExactlyCompatible ==
    ReadOnly("get_exactly_compatible",
             Returned(GetExactlyCompatible(cls, heap["data"])))

CallIsCompatible ==
    ReadOnly("is_compatible", Returned(IsCompatible(cls, heap["data"])))

CallValidate ==
    ReadOnly("validate", Validate(cls, "data", heap["data"], accepts))

CallIsValid ==
    ReadOnly("is_valid", Returned(IsValid(cls, "data", heap["data"], accepts)))

CallCount == ReadOnly("count", Count(cls, heap["data"]))

NextClassify ==
    \/ CallGetExactlyCompatible
    \/ CallIsCompatible
    \/ CallValidate
    \/ CallIsValid
    \/ CallCount

SpecClassify == InitClassify /\ [][NextClassify]_vars

(***************************************************************************)
(* Upgrade                                                                 *)
(***************************************************************************)
\* The reference that refers to no object (Python's None, where a dataset
\* is expected)
NoObject == "None"

\* deepcopy(data): a new object "fresh" with the contents of "ref"
DeepCopy(h, ref, fresh) == (fresh :> h[ref]) @@ h

\* What a version's _inherit() does to one object of a list
InheritObject(v, object) == object * 10 + v

\* cls._inherit(data): the data of the previous version made data of this
\* version: it declares this version, and every object is converted
Inherit(v, d) ==
    [version |-> <<Major(v), Minor(v)>>,
     lists |-> [k \in DOMAIN d.lists |->
                   [i \in 1..Len(d.lists[k]) |->
                       InheritObject(v, d.lists[k][i])]]]

\* The loop with newer_versions.append(version) for insert(0, version)
RECURSIVE FindCompatibleAppending(_, _, _)
FindCompatibleAppending(lineage, d, newer_versions) ==
    IF lineage = <<>>
    THEN [found |-> FALSE, newer_versions |-> newer_versions]
    ELSE IF IsCompatibleExactly(Head(lineage), d)
    THEN [found |-> TRUE, newer_versions |-> newer_versions]
    ELSE FindCompatibleAppending(Tail(lineage), d,
                                 Append(newer_versions, Head(lineage)))

\* The loop remembering the compatible version too, as one to inherit
RECURSIVE FindCompatibleInclusive(_, _, _)
FindCompatibleInclusive(lineage, d, newer_versions) ==
    IF lineage = <<>>
    THEN [found |-> FALSE, newer_versions |-> newer_versions]
    ELSE IF IsCompatibleExactly(Head(lineage), d)
    THEN [found |-> TRUE, newer_versions |-> <<Head(lineage)>> \o newer_versions]
    ELSE FindCompatibleInclusive(Tail(lineage), d,
                                 <<Head(lineage)>> \o newer_versions)

\* The loop over cls.lineage: stops at the first exactly compatible version
\* ("break"), having put every version visited before it at the front of
\* newer_versions; found is false when the loop ran to its "else"
RECURSIVE FindCompatible(_, _, _)
FindCompatible(lineage, d, newer_versions) ==
    IF lineage = <<>>
    THEN [found |-> FALSE, newer_versions |-> newer_versions]
    ELSE IF IsCompatibleExactly(Head(lineage), d)
    THEN [found |-> TRUE, newer_versions |-> newer_versions]
    ELSE FindCompatible(Tail(lineage), d, <<Head(lineage)>> \o newer_versions)

\* The loop over newer_versions: data = version._inherit(data), which
\* modifies the object in place and returns it
RECURSIVE InheritAll(_, _, _, _)
InheritAll(newer_versions, h, data, log) ==
    IF newer_versions = <<>> THEN [heap |-> h, calls |-> log]
    ELSE LET version == Head(newer_versions)
             inherited == Inherit(version, h[data])
         IN  InheritAll(Tail(newer_versions),
                        [h EXCEPT ![data] = inherited], data,
                        Append(log, [version |-> version,
                                     data |-> h[data],
                                     returned |-> inherited]))

\* upgrade never copying, whatever "copy" is
UpgradeInPlace(h, ref, cp, fresh) == [heap |-> h, data |-> ref]

\* "if copy: data = deepcopy(data)"
UpgradeCopy(h, ref, cp, fresh) ==
    IF cp THEN [heap |-> DeepCopy(h, ref, fresh), data |-> fresh]
    ELSE [heap |-> h, data |-> ref]

\* upgrade returning the data when no version is compatible
UpgradeFailSilently(v, data, acc, opt) == Returned(data)

\* No compatible version: cls.validate_exactly(data) raises, or else
\* "assert False" does; with assert statements stripped, "return None"
UpgradeFail(v, data, acc, opt) ==
    LET validated == ValidateExactly(v, data, acc)
    IN  IF validated.status = "raised" THEN validated
        ELSE IF opt THEN Returned(NoObject)
        ELSE Raised("AssertionError", None)

\* cls.upgrade(data, copy): the heap after the call, what it returned or
\* raised, and the _inherit() calls it made
Upgrade(v, h, ref, cp, fresh, acc, opt) ==
    LET copied == UpgradeCopy(h, ref, cp, fresh)
        found == FindCompatible(Lineage(v), copied.heap[copied.data], <<>>)
        inherited == InheritAll(found.newer_versions, copied.heap,
                                copied.data, <<>>)
    IN  IF ~found.found
        THEN [heap |-> copied.heap,
              result |-> UpgradeFail(v, copied.data, acc, opt),
              calls |-> <<>>]
        ELSE [heap |-> inherited.heap,
              result |-> Returned(copied.data),
              calls |-> inherited.calls]

InitUpgrade ==
    /\ op = "upgrade"
    /\ pc = "call"
    /\ cls \in Versions
    /\ other = None
    /\ \E ver \in DeclaredVersions, keys \in SUBSET Names :
          heap = ("data" :> Dataset(ver, 1, keys))
    /\ given = heap
    /\ accepts \in SUBSET Versions
    /\ optimized \in BOOLEAN
    /\ copy \in BOOLEAN
    /\ copy_sources = TRUE
    /\ sources = <<>>
    /\ consumed = <<>>
    /\ target = "none"
    /\ source = "none"
    /\ target_version = None
    /\ result = NoResult
    /\ calls = <<>>

CallUpgrade ==
    /\ op = "upgrade"
    /\ pc = "call"
    /\ LET call == Upgrade(cls, heap, "data", copy, "copy", accepts, optimized)
       IN  /\ heap' = call.heap
           /\ result' = call.result
           /\ calls' = call.calls
    /\ pc' = "done"
    /\ UNCHANGED <<op, cls, other, given, accepts, optimized, copy,
                   copy_sources, sources, consumed, target, source,
                   target_version>>

NextUpgrade == CallUpgrade

SpecUpgrade == InitUpgrade /\ [][NextUpgrade]_vars

(***************************************************************************)
(* Merge                                                                   *)
(***************************************************************************)
\* The heap and the locals of a merge call, as one value
Locals ==
    [heap |-> heap, target |-> target, source |-> source,
     target_version |-> target_version, result |-> result, calls |-> calls]

\* Up to the loop: the target copied if asked, and its compatible version
MergeStart(v, h, cp) ==
    LET copied == IF cp THEN DeepCopy(h, "target", "target_copy") ELSE h
        t == IF cp THEN "target_copy" ELSE "target"
    IN  [heap |-> copied, target |-> t, source |-> "none",
         target_version |-> GetExactlyCompatible(v, copied[t]),
         result |-> NoResult, calls |-> <<>>]

\* issubclass(target_version, source_version)
SourceIsOlder(source_version, target_version_) ==
    IsSubclass(target_version_, source_version)

\* issubclass(source_version, target_version)
SourceIsNewer(source_version, target_version_) ==
    IsSubclass(source_version, target_version_)

\* One iteration, up to the loop over the tree: the source "s" copied if
\* asked, and the target or the source upgraded in place to the version of
\* the other. issubclass() raises TypeError for an argument that is None.
MergeReconcile(v, m, s, cps, acc, opt) ==
    \* "source" is assigned anew: the previous source is no longer referred to
    LET kept == [r \in DOMAIN m.heap \ {"source", "source_copy"} |-> m.heap[r]]
        passed == ("source" :> s) @@ kept
        copied == IF cps THEN DeepCopy(passed, "source", "source_copy")
                  ELSE passed
        src == IF cps THEN "source_copy" ELSE "source"
        source_version == GetExactlyCompatible(v, copied[src])
    IN  IF source_version = None \/ m.target_version = None
        THEN [m EXCEPT !.heap = copied, !.source = src,
                       !.result = Raised("TypeError", None)]
        ELSE IF SourceIsNewer(source_version, m.target_version)
        THEN LET call == Upgrade(source_version, copied, m.target, FALSE,
                                 NoObject, acc, opt)
             IN  [heap |-> call.heap,
                  target |-> call.result.value,
                  source |-> src,
                  target_version |-> source_version,
                  result |-> IF call.result.status = "raised"
                             THEN call.result ELSE NoResult,
                  calls |-> m.calls \o call.calls]
        ELSE LET call == Upgrade(m.target_version, copied, src, FALSE,
                                 NoObject, acc, opt)
             IN  [heap |-> call.heap,
                  target |-> m.target,
                  source |-> call.result.value,
                  target_version |-> m.target_version,
                  result |-> IF call.result.status = "raised"
                             THEN call.result ELSE NoResult,
                  calls |-> m.calls \o call.calls]

\* The loop putting the source's list before the target's
MergeCombinePrepending(m) ==
    LET t == m.heap[m.target]
        s == m.heap[m.source]
        merged == {obj_list_name \in DOMAIN Tree(m.target_version) :
                      obj_list_name \in DOMAIN s.lists}
        lists == [k \in DOMAIN t.lists \cup merged |->
                     IF k \in merged THEN s.lists[k] \o Get(t, k)
                     ELSE t.lists[k]]
    IN  [m EXCEPT !.heap = [m.heap EXCEPT ![m.target] =
                               [t EXCEPT !.lists = lists]]]

\* The loop over target_version.tree: every key of the tree that the source
\* holds gets the source's list appended to the target's (or to [])
MergeCombine(m) ==
    IF m.target = NoObject \/ m.source = NoObject
    THEN [m EXCEPT !.result = Raised("TypeError", None)]
    ELSE LET t == m.heap[m.target]
             s == m.heap[m.source]
             merged == {obj_list_name \in DOMAIN Tree(m.target_version) :
                           obj_list_name \in DOMAIN s.lists}
             lists == [k \in DOMAIN t.lists \cup merged |->
                          IF k \in merged THEN Get(t, k) \o s.lists[k]
                          ELSE t.lists[k]]
         IN  [m EXCEPT !.heap = [m.heap EXCEPT ![m.target] =
                                    [t EXCEPT !.lists = lists]]]

\* The loop over the sources, and "return target"
RECURSIVE MergeSources(_, _, _, _, _, _)
MergeSources(v, m, srcs, cps, acc, opt) ==
    IF srcs = <<>> THEN [m EXCEPT !.result = Returned(m.target)]
    ELSE LET reconciled == MergeReconcile(v, m, Head(srcs), cps, acc, opt)
             combined == MergeCombine(reconciled)
         IN  IF reconciled.result.status = "raised" THEN reconciled
             ELSE IF combined.result.status = "raised" THEN combined
             ELSE MergeSources(v, combined, Tail(srcs), cps, acc, opt)

\* cls.merge(target, sources, copy_target, copy_sources) as a whole
Merge(v, h, srcs, cp, cps, acc, opt) ==
    MergeSources(v, MergeStart(v, h, cp), srcs, cps, acc, opt)

Assign(m) ==
    /\ heap' = m.heap
    /\ target' = m.target
    /\ source' = m.source
    /\ target_version' = m.target_version
    /\ result' = m.result
    /\ calls' = m.calls

InitMergeOver(classes, flags, versions, keysets, lengths) ==
    /\ op = "merge"
    /\ pc = "call"
    /\ cls \in classes
    /\ other = None
    /\ \E ver \in versions, keys \in keysets :
          heap = ("target" :> Dataset(ver, 1, keys))
    /\ given = heap
    /\ accepts = {}
    /\ optimized = FALSE
    /\ copy \in flags
    /\ copy_sources \in flags
    /\ \E n \in lengths : \E f \in [1..n -> versions \X keysets] :
          sources = [i \in 1..n |-> Dataset(f[i][1], 5 * i + 1, f[i][2])]
    /\ consumed = <<>>
    /\ target = "none"
    /\ source = "none"
    /\ target_version = None
    /\ result = NoResult
    /\ calls = <<>>

\* Lines 357-360
MergeCall ==
    /\ op = "merge"
    /\ pc = "call"
    /\ Assign(MergeStart(cls, heap, copy))
    /\ pc' = "loop"
    /\ UNCHANGED <<op, cls, other, given, accepts, optimized, copy,
                   copy_sources, sources, consumed>>

\* Lines 361-371: the iterable yields its next dataset
MergeNextSource ==
    /\ op = "merge"
    /\ pc = "loop"
    /\ sources # <<>>
    /\ LET m == MergeReconcile(cls, Locals, Head(sources), copy_sources,
                               accepts, optimized)
       IN  /\ Assign(m)
           /\ pc' = IF m.result.status = "raised" THEN "done" ELSE "combine"
    /\ sources' = Tail(sources)
    /\ consumed' = Append(consumed, Head(sources))
    /\ UNCHANGED <<op, cls, other, given, accepts, optimized, copy,
                   copy_sources>>

\* Lines 372-376
MergeLists ==
    /\ op = "merge"
    /\ pc = "combine"
    /\ LET m == MergeCombine(Locals)
       IN  /\ Assign(m)
           /\ pc' = IF m.result.status = "raised" THEN "done" ELSE "loop"
    /\ UNCHANGED <<op, cls, other, given, accepts, optimized, copy,
                   copy_sources, sources, consumed>>

\* Lines 361, 377-378: the iterable is exhausted
MergeReturn ==
    /\ op = "merge"
    /\ pc = "loop"
    /\ sources = <<>>
    /\ result' = Returned(target)
    /\ pc' = "done"
    /\ UNCHANGED <<op, cls, other, heap, given, accepts, optimized, copy,
                   copy_sources, sources, consumed, target, source,
                   target_version, calls>>

NextMerge == MergeCall \/ MergeNextSource \/ MergeLists \/ MergeReturn

\* Datasets of every declared major number, holding every list
InitMerge ==
    InitMergeOver(Versions, BOOLEAN,
                  {<<>>} \cup {<<m, 0>> : m \in 1..Major(NumVersions)},
                  {Names}, 0..MaxSources)

SpecMerge == InitMerge /\ [][NextMerge]_vars

\* Datasets of the two oldest versions, holding any lists
InitCombine ==
    InitMergeOver({NumVersions}, {TRUE},
                  {<<Major(v), Minor(v)>> : v \in 1..2},
                  SUBSET Names, 0..MaxSources)

SpecCombine == InitCombine /\ [][NextMerge]_vars

\* A target and two sources of the versions of the chain
InitMergeOrder ==
    InitMergeOver({NumVersions}, {TRUE},
                  {<<Major(v), Minor(v)>> : v \in 1..NumVersions},
                  SUBSET {"a", "b"}, {2})

SpecMergeOrder == InitMergeOrder /\ [][NextMerge]_vars

(***************************************************************************)
(* Every operation that takes a dataset                                    *)
(***************************************************************************)
Init == InitClassify \/ InitUpgrade \/ InitMerge

Next == NextClassify \/ NextUpgrade \/ NextMerge

Spec == Init /\ [][Next]_vars

(***************************************************************************)
(* Properties                                                              *)
(***************************************************************************)
Range(seq) == {seq[i] : i \in DOMAIN seq}

\* Dataset d is exactly compatible with version w: it declares the major
\* number of w and a minor number not above that of w
Declares(d, w) ==
    /\ d.version # <<>>
    /\ d.version[1] = Major(w)
    /\ d.version[2] <= Minor(w)

\* The places in the lineage of v of the versions d is exactly compatible with
Hits(v, d) == {i \in 1..Len(Lineage(v)) : Declares(d, Lineage(v)[i])}

HasAnchor(v, d) == Hits(v, d) # {}

\* The first version of the lineage of v, walked newest to oldest, that d is
\* exactly compatible with
AnchorOf(v, d) ==
    Lineage(v)[CHOOSE i \in Hits(v, d) : \A j \in Hits(v, d) : i <= j]

\* Class a is class b or a class b derives from
AncestorOrSelf(a, b) == a = b \/ a = AbstractVersion \/ a \in Range(Lineage(b))

Done == pc = "done"

\* C1: upgrading a dataset whose exactly compatible version is older than
\* the target version calls _inherit() of exactly the versions above the
\* dataset's and up to the target, oldest first, once each, each on what the
\* previous one returned, and returns a dataset exactly compatible with the
\* target version.
C1_UpgradeInheritsEachNewerVersionInOrder ==
    (/\ op = "upgrade"
     /\ Done
     /\ HasAnchor(cls, given["data"])
     /\ AnchorOf(cls, given["data"]) # cls)
    => LET lineage == Lineage(cls)
           at == CHOOSE i \in 1..Len(lineage) :
                    lineage[i] = AnchorOf(cls, given["data"])
       IN  /\ Len(calls) = at - 1
           /\ \A j \in 1..Len(calls) : calls[j].version = lineage[at - j]
           /\ calls[1].data = given["data"]
           /\ \A j \in 2..Len(calls) : calls[j].data = calls[j - 1].returned
           /\ result.status = "returned"
           /\ result.value # NoObject
           /\ heap[result.value] = calls[Len(calls)].returned
           /\ Declares(heap[result.value], cls)

C1_Witness ==
    /\ op = "upgrade"
    /\ Done
    /\ cls = NumVersions
    /\ HasAnchor(cls, given["data"])
    /\ AnchorOf(cls, given["data"]) = 1
    /\ Len(calls) = NumVersions - 1
    /\ DOMAIN given["data"].lists = Names
    /\ result.status = "returned"

\* C2: upgrading a dataset that is exactly compatible with the target
\* version calls no _inherit() and returns a dataset with the contents of
\* the one given, whether copying or not.
C2_UpgradeOfCompatibleIsUnchanged ==
    (/\ op = "upgrade"
     /\ Done
     /\ Declares(given["data"], cls))
    => /\ calls = <<>>
       /\ result.status = "returned"
       /\ result.value # NoObject
       /\ heap[result.value] = given["data"]

C2_Witness ==
    /\ op = "upgrade"
    /\ Done
    /\ Declares(given["data"], cls)
    /\ given["data"].version[2] < Minor(cls)
    /\ ~copy
    /\ DOMAIN given["data"].lists = Names
    /\ result.status = "returned"
    /\ result.value = "data"

AllCompatible ==
    /\ op = "merge"
    /\ HasAnchor(cls, given["target"])
    /\ \A i \in DOMAIN consumed : HasAnchor(cls, consumed[i])
    /\ \A i \in DOMAIN sources : HasAnchor(cls, sources[i])

\* The exactly compatible versions of the target and of the sources yielded
SeenVersions ==
    {AnchorOf(cls, given["target"])}
        \cup {AnchorOf(cls, consumed[i]) : i \in DOMAIN consumed}

\* C4, in every state: the working version is a version of the lineage, and
\* a finished merge has returned a dataset exactly compatible with the
\* working version, which is the most senior of the versions seen.
C4_State ==
    AllCompatible =>
        /\ pc # "call" => target_version \in Range(Lineage(cls))
        /\ Done =>
            /\ result.status = "returned"
            /\ target_version \in SeenVersions
            /\ \A w \in SeenVersions : AncestorOrSelf(w, target_version)
            /\ Declares(heap[result.value], target_version)

\* C4, in every step: the working version starts as the target's exactly
\* compatible version and later never becomes an older version.
C4_Step ==
    AllCompatible =>
        /\ (pc = "call" /\ pc' = "loop") =>
               target_version' = AnchorOf(cls, given["target"])
        /\ pc # "call" => AncestorOrSelf(target_version, target_version')

C5_Step ==
    (op = "merge" /\ pc = "combine") =>
        \A k \in Names :
            IF /\ k \in DOMAIN Tree(target_version)
               /\ k # ""
               /\ k \in DOMAIN heap[source].lists
            THEN /\ k \in DOMAIN heap'[target].lists
                 /\ heap'[target].lists[k] =
                        Get(heap[target], k) \o heap[source].lists[k]
            ELSE /\ k \in DOMAIN heap'[target].lists
                    <=> k \in DOMAIN heap[target].lists
                 /\ Get(heap'[target], k) = Get(heap[target], k)

\* C5 as stated: combining appends the source's list to the target's for
\* the keys of the working version's tree that the source holds, except the
\* root key; the root key and the keys outside the tree are left alone.
C5_CombineSkipsRootKey == [][C5_Step]_vars

\* C6: with the copy flags at their default (true), the objects the caller
\* passed to upgrade and to merge hold what they held when passed, during
\* and after the call; the read-only operations never change the dataset.
C6_CallerDataUnchanged ==
    /\ op \in ReadOnlyOps => heap["data"] = given["data"]
    /\ (op = "upgrade" /\ copy) => heap["data"] = given["data"]
    /\ (op = "merge" /\ copy /\ copy_sources) =>
           /\ heap["target"] = given["target"]
           /\ "source" \in DOMAIN heap =>
                  heap["source"] = consumed[Len(consumed)]

C6_Witness ==
    /\ op = "merge"
    /\ copy
    /\ copy_sources
    /\ Done
    /\ result.status = "returned"
    /\ Len(consumed) = 2
    /\ Len(calls) >= 2
    /\ heap[target] # given["target"]
    /\ heap[source] # consumed[2]

\* C7: get_exactly_compatible returns the first version of the lineage,
\* walked newest to oldest, that the dataset is exactly compatible with, or
\* None when there is none; is_compatible tells whether there is one.
C7_GetExactlyCompatibleIsFirstMatch ==
    /\ (op = "get_exactly_compatible" /\ Done) =>
           /\ result.status = "returned"
           /\ result.value \in Range(Lineage(cls)) \cup {None}
           /\ IF HasAnchor(cls, given["data"])
              THEN result.value = AnchorOf(cls, given["data"])
              ELSE result.value = None
    /\ (op = "is_compatible" /\ Done) =>
           /\ result.status = "returned"
           /\ result.value = HasAnchor(cls, given["data"])

C7_Witness ==
    /\ op = "get_exactly_compatible"
    /\ Done
    /\ cls = NumVersions
    /\ given["data"].version = <<1, 0>>
    /\ result.status = "returned"
    /\ result.value = 1

\* C8 as stated: is_valid is true exactly when the dataset has an exactly
\* compatible version in the lineage and that version's schema accepts it.
C8_IsValidOnlyIfCompatible ==
    (op = "is_valid" /\ Done) =>
        /\ result.status = "returned"
        /\ result.value = (/\ HasAnchor(cls, given["data"])
                           /\ AnchorOf(cls, given["data"]) \in accepts)

\* C9: two classes of which one derives from the other compare by that:
\* <= is "is the other or an ancestor of it", < is <= without equality,
\* >= and > the converses, and exactly one of <, = and > holds; two classes
\* of which neither derives from the other raise NotImplementedError.
C9_ComparisonFollowsLineage ==
    (op \in {"__le__", "__ge__", "__lt__", "__gt__"} /\ Done) =>
        IF AncestorOrSelf(cls, other) \/ AncestorOrSelf(other, cls)
        THEN /\ result.status = "returned"
             /\ op = "__le__" => result.value = AncestorOrSelf(cls, other)
             /\ op = "__lt__" =>
                    result.value = (AncestorOrSelf(cls, other) /\ cls # other)
             /\ op = "__ge__" => result.value = AncestorOrSelf(other, cls)
             /\ op = "__gt__" =>
                    result.value = (AncestorOrSelf(other, cls) /\ cls # other)
             /\ Cardinality({x \in {"lt", "eq", "gt"} :
                    \/ x = "lt" /\ Lt(cls, other).value
                    \/ x = "eq" /\ cls = other
                    \/ x = "gt" /\ Gt(cls, other).value}) = 1
             /\ Le(cls, other).value = (Lt(cls, other).value \/ cls = other)
             /\ Ge(cls, other).value = (Gt(cls, other).value \/ cls = other)
        ELSE /\ result.status = "raised"
             /\ result.exc = "NotImplementedError"

C9_Witness ==
    /\ op = "__le__"
    /\ Done
    /\ cls = 1
    /\ other = NumVersions
    /\ result.status = "returned"
    /\ result.value = TRUE

\* The lists of dataset d once upgraded to version w
UpgradedTo(w, d) ==
    Upgrade(w, "d" :> d, "d", FALSE, NoObject, {}, FALSE).heap["d"]

\* The merge of the same target with the two sources in the other order
Swapped ==
    Merge(cls, "target" :> given["target"], <<consumed[2], consumed[1]>>,
          copy, copy_sources, accepts, optimized)

\* Two lists hold the same objects
SameObjects(p, q) == Len(p) = Len(q) /\ Range(p) = Range(q)

NamedThroughout(d) ==
    \A k \in (DOMAIN d.lists \cap DOMAIN Tree(target_version)) \ {""} :
        \A w \in Range(Lineage(target_version)) :
            AncestorOrSelf(AnchorOf(cls, d), w) => k \in DOMAIN Tree(w)

====
